---- MODULE Spec2Model ----
(***************************************************************************)
(* Model of the Internship-Allocator repository: the text helpers and the  *)
(* Recommender of recommender.py and the student store of utils.py.        *)
(*                                                                         *)
(* A Python str is a sequence of one-character strings.  A Python value    *)
(* that is not a str is one of the sentinels of NonStr.  A float that is a *)
(* ratio of small integers is the record [num, den] with den > 0.          *)
(***************************************************************************)
EXTENDS Integers, Sequences, FiniteSets, TLC

VARIABLES
    pc,            \* the function that was called last ("init": none yet)
    arg,           \* the arguments of that call
    ret,           \* the value it returned (Raised: it raised ValueError)
    companies,     \* Recommender.companies: the rows of the catalog frame
    embeddings,    \* Recommender.embeddings: one unit vector per row
    tieRank,       \* the build's sort: rank of each row among rows of equal score
    resIndex,      \* index labels of the frame `res` the last result was made from
    first,         \* the first recommend call, what it returned, and whether a
                   \* call with other arguments has been made since
    store,         \* content of students.csv (Absent: no such file)
    saved          \* emails of the save_student_profile calls that returned

vars == <<pc, arg, ret, companies, embeddings, tieRank, resIndex, first, store, saved>>

engVars   == <<companies, embeddings, tieRank, resIndex, first>>
storeVars == <<store, saved>>

----------------------------------------------------------------------------
(* Bounds of the model *)

MaxPieces == 3      \* a text is a concatenation of at most MaxPieces pieces
MaxSkills == 2      \* a skill list has at most MaxSkills elements
MaxCatalog == 2     \* a catalog has at most MaxCatalog rows
MaxTopK == 3        \* top_k ranges over -1..MaxTopK
MaxRows == 3        \* students.csv holds at most MaxRows rows

----------------------------------------------------------------------------
(* Python values *)

None == <<"None">>
NaN  == <<"nan">>
NonStr == {None, NaN}

IsStr(s) == s \notin NonStr

Min(a, b) == IF a <= b THEN a ELSE b
Max(a, b) == IF a >= b THEN a ELSE b

UpperSeq == <<"A","B","C","D","E","F","G","H","I","J","K","L","M",
              "N","O","P","Q","R","S","T","U","V","W","X","Y","Z">>
LowerSeq == <<"a","b","c","d","e","f","g","h","i","j","k","l","m",
              "n","o","p","q","r","s","t","u","v","w","x","y","z">>
DigitSet == {"0","1","2","3","4","5","6","7","8","9"}
LowerSet == {LowerSeq[i] : i \in 1..26}
UpperSet == {UpperSeq[i] : i \in 1..26}

\* [a-z0-9, ]
AllowedSet == LowerSet \cup DigitSet \cup {",", " "}
Allowed(c) == c \in AllowedSet
\* \s
SpaceSet == {" ", "\n", "\t"}
IsSpace(c) == c \in SpaceSet

\* str.lower()
LowerOf == [c \in UpperSet |-> LowerSeq[CHOOSE i \in 1..26 : UpperSeq[i] = c]]
LowerChar(c) == IF c \in UpperSet THEN LowerOf[c] ELSE c
Lower(s) == [i \in 1..Len(s) |-> LowerChar(s[i])]

Drop == "<drop>"
Keep(c) == c # Drop

\* re.sub(r"[^a-z0-9, ]+", " ", s): every maximal run of characters outside
\* the class becomes one space
SubDisallowed(s) ==
    SelectSeq([i \in 1..Len(s) |->
                  IF Allowed(s[i]) THEN s[i]
                  ELSE IF i = 1 \/ Allowed(s[i-1]) THEN " " ELSE Drop],
              Keep)

\* re.sub(r"\s+", " ", s): every maximal run of whitespace becomes one space
SubSpaces(s) ==
    SelectSeq([i \in 1..Len(s) |->
                  IF ~IsSpace(s[i]) THEN s[i]
                  ELSE IF i = 1 \/ ~IsSpace(s[i-1]) THEN " " ELSE Drop],
              Keep)

\* str.strip()
Strip(s) ==
    IF \A i \in 1..Len(s) : IsSpace(s[i]) THEN <<>>
    ELSE SubSeq(s,
            CHOOSE i \in 1..Len(s) : ~IsSpace(s[i]) /\ \A j \in 1..(i-1) : IsSpace(s[j]),
            CHOOSE i \in 1..Len(s) : ~IsSpace(s[i]) /\ \A j \in (i+1)..Len(s) : IsSpace(s[j]))

\* a mutation of normalize_text: the whitespace pass is missing
normalize_text_nocollapse(s) ==
    IF ~IsStr(s) THEN <<>> ELSE
    LET t == [i \in 1..Len(s) |-> IF Allowed(LowerChar(s[i])) THEN LowerChar(s[i]) ELSE " "]
    IN  Strip(t)

normalize_text(s) ==
    IF ~IsStr(s) THEN <<>>
    ELSE Strip(SubSpaces(SubDisallowed(Lower(s))))

AndWord == <<" ", "a", "n", "d", " ">>

\* length of the match of  [,;\n]| and   at position i of s (0: no match)
DelimSet == {",", ";", "\n"}
DelimAt(s, i) ==
    IF s[i] \in DelimSet THEN 1
    ELSE IF i + 4 <= Len(s) /\ SubSeq(s, i, i + 4) = AndWord THEN 5
    ELSE 0

\* re.split(r"[,;\n]| and ", s)
RECURSIVE re_split(_)
SplitAt(s, i) ==
    <<SubSeq(s, 1, i - 1)>> \o re_split(SubSeq(s, i + DelimAt(s, i), Len(s)))
re_split(s) ==
    IF \A i \in 1..Len(s) : DelimAt(s, i) = 0 THEN <<s>>
    ELSE SplitAt(s, CHOOSE h \in 1..Len(s) :
                        DelimAt(s, h) > 0 /\ \A g \in 1..(h-1) : DelimAt(s, g) = 0)

NonEmpty(p) == p # <<>>

\* [p.strip() for p in parts if p.strip()]
StripAll(parts) == SelectSeq([i \in 1..Len(parts) |-> Strip(parts[i])], NonEmpty)

\* list(dict.fromkeys(xs)): first occurrences, in order
FromKeys(xs) ==
    SelectSeq([i \in 1..Len(xs) |->
                  IF \A j \in 1..(i-1) : xs[j] # xs[i] THEN xs[i] ELSE <<Drop>>],
              LAMBDA x : x # <<Drop>>)

parse_skills(s) == FromKeys(StripAll(re_split(normalize_text(s))))

\* truthiness of a list element in  `for x in list1 if x`
Truthy(x) == x # <<>> /\ x # None

SkillSet(lst) == {normalize_text(lst[i]) : i \in {j \in 1..Len(lst) : Truthy(lst[j])}}

Abs(n) == IF n < 0 THEN 0 - n ELSE n

RECURSIVE GCD(_, _)
GCD(a, b) == IF b = 0 THEN a ELSE GCD(b, a % b)

\* the float n/d (d > 0), in lowest terms
Reduced(n, d, g) == [num |-> n \div g, den |-> d \div g]
\* a numpy array: the vector with its elements computed
Array(f) == f \o <<>>

Ratio(n, d) == Reduced(n, d, GCD(Abs(n), d))
Zero == Ratio(0, 1)
One  == Ratio(1, 1)
RatEq(a, b) == a.num * b.den = b.num * a.den

\* lines 27-29, for the two sets
Overlap(s1, s2) ==
    IF s1 = {} /\ s2 = {} THEN Zero
    ELSE IF s1 \cup s2 # {}
         THEN Ratio(Cardinality(s1 \cap s2), Cardinality(s1 \cup s2))
         ELSE Zero

\* a mutation of jaccard_score: the overlap is divided by the first set's size
jaccard_score_first(l1, l2) ==
    IF SkillSet(l1) = {} THEN Zero
    ELSE Ratio(Cardinality(SkillSet(l1) \cap SkillSet(l2)), Cardinality(SkillSet(l1)))

jaccard_score(l1, l2) == Overlap(SkillSet(l1), SkillSet(l2))

----------------------------------------------------------------------------
(* Recommender *)

RatAdd(a, b) == Ratio(a.num * b.den + b.num * a.den, a.den * b.den)
RatMul(a, b) == Ratio(a.num * b.num, a.den * b.den)
RatLt(a, b)  == a.num * b.den < b.num * a.den
FromInt(n)   == Ratio(n, 1)

\* `sub in s` for Python strings
Contains(s, sub) ==
    \E i \in 1..(Len(s) - Len(sub) + 1) : SubSeq(s, i, i + Len(sub) - 1) = sub

\* Series.fillna(""): a missing value becomes the empty string
FillNa(v) == IF v = NaN THEN <<>> ELSE v

gov_keywords ==
    { <<"n","g","o">>, <<"g","o","v">>,
      <<"g","o","v","e","r","n","m","e","n","t">>,
      <<"p","u","b","l","i","c"," ","s","e","c","t","o","r">>,
      <<"p","s","u">>, <<"c","o","-","o","p">>,
      <<"c","o","o","p","e","r","a","t","i","v","e">>,
      <<"c","o","u","n","c","i","l">>, <<"t","r","u","s","t">>,
      <<"r","u","r","a","l"," ","d","e","v","e","l","o","p","m","e","n","t">>,
      <<"c","o","m","m","u","n","i","t","y"," ","d","e","v","e","l","o","p","m","e","n","t">> }

detect_gov(row) ==
    LET t == Lower(row.CompanyName \o <<" ">> \o row.Sector)
    IN  \E k \in gov_keywords : Contains(t, k)

\* SentenceTransformer.encode: the external model, a fixed function of the
\* text.  This stand-in returns axis-aligned integer vectors only, so that
\* every norm and every cosine is an integer.
Encode(t) ==
    IF Contains(t, <<"p">>) THEN <<2, 0>>
    ELSE IF Contains(t, <<"x">>) THEN <<-2, 0>>
    ELSE IF Contains(t, <<"s">>) THEN <<0, 3>>
    ELSE <<0, 0>>

Norm(v) == CHOOSE n \in 0..(v[1] * v[1] + v[2] * v[2]) : n * n = v[1] * v[1] + v[2] * v[2]

\* _normalize_embeddings, one row
NormalizeEmbedding(v) ==
    LET n == IF Norm(v) = 0 THEN 1 ELSE Norm(v)
    IN  <<v[1] \div n, v[2] \div n>>

Dot(u, v) == u[1] * v[1] + u[2] * v[2]

\* Recommender.__init__: the rows of self.companies
InitCompanies(df) ==
    [i \in 1..Len(df) |->
        LET r == [f \in DOMAIN df[i] |-> FillNa(df[i][f])]
        IN  [CompanyName |-> r.CompanyName, PostedRole |-> r.PostedRole,
             Industry |-> r.Industry, Sector |-> r.Sector,
             Location |-> r.Location, SkillsRequired |-> r.SkillsRequired,
             Stipend |-> r.Stipend,
             combined_text |-> r.SkillsRequired \o <<" ">> \o r.PostedRole
                                 \o <<" ">> \o r.Industry,
             IsGovernment |-> detect_gov(r)]]

\* Recommender.__init__: self.embeddings
InitEmbeddings(rows) ==
    [i \in 1..Len(rows) |-> NormalizeEmbedding(Encode(normalize_text(rows[i].combined_text)))]

DefaultWeights ==
    [embed |-> Ratio(70, 100), jaccard |-> Ratio(20, 100),
     location |-> Ratio(5, 100), gov |-> Ratio(5, 100)]

\* truthiness of candidate_location_pref
PrefGiven(p) == p # None /\ p # <<>>

\* line 69, for loc = normalize_text(candidate_location_pref)
LocationMatch(rows, loc) ==
    [i \in 1..Len(rows) |->
        IF loc # <<>> /\ Contains(normalize_text(rows[i].Location), loc) THEN 1 ELSE 0]

LocationBonus(rows, pref) ==
    IF PrefGiven(pref) THEN LocationMatch(rows, normalize_text(pref))
    ELSE [i \in 1..Len(rows) |-> 0]

GovBonus(rows, is_rural) ==
    IF is_rural
    THEN [i \in 1..Len(rows) |-> IF rows[i].IsGovernment THEN 1 ELSE 0]
    ELSE [i \in 1..Len(rows) |-> 0]

\* line 78: the weighted sum, elementwise
WeightedSum(w, sim, jaccard, location_bonus, gov_bonus) ==
    [i \in 1..Len(sim) |->
        RatAdd(RatAdd(RatAdd(RatMul(w.embed, FromInt(sim[i])),
                             RatMul(w.jaccard, jaccard[i])),
                      RatMul(w.location, FromInt(location_bonus[i]))),
               RatMul(w.gov, FromInt(gov_bonus[i])))]

\* line 63: np.dot(self.embeddings, cand_emb)
Sim(embs, cand_emb) == [i \in 1..Len(embs) |-> Dot(embs[i], cand_emb)]

\* line 65: the jaccard column, for the parsed candidate skills
JaccardColumn(rows, cand_skills) ==
    [i \in 1..Len(rows) |-> jaccard_score(cand_skills, parse_skills(rows[i].SkillsRequired))]

\* a mutation of FinalScore: the gov bonus is not switched off by is_rural=False
FinalScoreAlwaysGov(rows, embs, c) ==
    Array(WeightedSum(c.weights,
        Array(Sim(embs, NormalizeEmbedding(Encode(normalize_text(c.candidate_text))))),
        Array(JaccardColumn(rows, parse_skills(c.candidate_skills))),
        Array(LocationBonus(rows, c.location_pref)),
        Array(GovBonus(rows, TRUE))))

\* recommend, lines 61-78: the vector final_score
FinalScore(rows, embs, c) ==
    Array(WeightedSum(c.weights,
        Array(Sim(embs, NormalizeEmbedding(Encode(normalize_text(c.candidate_text))))),
        Array(JaccardColumn(rows, parse_skills(c.candidate_skills))),
        Array(LocationBonus(rows, c.location_pref)),
        Array(GovBonus(rows, c.is_rural))))

\* the permutation that puts row i at position pos[i]
Argsort(pos) == [p \in 1..Len(pos) |-> CHOOSE i \in 1..Len(pos) : pos[i] = p]

\* a mutation of SortValues: the order of equal scores follows the previous result
SortValuesHistory(score, rank) ==
    LET n == Len(score)
        flip == Len(resIndex) % 2 = 1
        Before(i, j) == RatLt(score[j], score[i])
                        \/ (RatEq(score[i], score[j])
                            /\ IF flip THEN rank[i] > rank[j] ELSE rank[i] < rank[j])
    IN  Array(Argsort(Array([i \in 1..n |-> 1 + Cardinality({j \in 1..n : Before(j, i)})])))

\* DataFrame.sort_values('score', ascending=False) with the default
\* kind='quicksort', which is not stable: rows come out by descending score,
\* rows of equal score in the order the build's sort leaves them (rank).
\* The value is the sequence of index labels of the sorted frame.
SortValues(score, rank) ==
    LET n == Len(score)
        Before(i, j) == RatLt(score[j], score[i])
                        \/ (RatEq(score[i], score[j]) /\ rank[i] < rank[j])
    IN  Array(Argsort(Array([i \in 1..n |-> 1 + Cardinality({j \in 1..n : Before(j, i)})])))

\* a mutation of DfHead: a slice that is one row short
DfHeadShort(s, n) ==
    IF n >= 0 THEN SubSeq(s, 1, Min(n, Len(s)) - 1)
    ELSE SubSeq(s, 1, Max(Len(s) + n, 0))

\* DataFrame.head(n): the first n rows; for negative n, all rows but the last |n|
DfHead(s, n) ==
    IF n >= 0 THEN SubSeq(s, 1, Min(n, Len(s)))
    ELSE SubSeq(s, 1, Max(Len(s) + n, 0))

\* a mutation of ResCopy: `res = self.companies`, so that res['score'] = ...
\* writes the score column into the catalog
ResAlias(rows) == [rows |-> rows, shared |-> TRUE]

\* res = self.companies.copy()
ResCopy(rows) == [rows |-> rows, shared |-> FALSE]

\* DataFrame.to_dict(orient="records") of the frame with index labels idx
ToDict(rows, score, idx) ==
    [p \in 1..Len(idx) |->
        [CompanyName |-> rows[idx[p]].CompanyName, PostedRole |-> rows[idx[p]].PostedRole,
         Industry |-> rows[idx[p]].Industry, Sector |-> rows[idx[p]].Sector,
         Location |-> rows[idx[p]].Location, SkillsRequired |-> rows[idx[p]].SkillsRequired,
         Stipend |-> rows[idx[p]].Stipend, combined_text |-> rows[idx[p]].combined_text,
         IsGovernment |-> rows[idx[p]].IsGovernment, score |-> score[idx[p]]]]

\* the frame after  res['score'] = final_score
WithScore(rows, score) ==
    [i \in 1..Len(rows) |->
        [CompanyName |-> rows[i].CompanyName, PostedRole |-> rows[i].PostedRole,
         Industry |-> rows[i].Industry, Sector |-> rows[i].Sector,
         Location |-> rows[i].Location, SkillsRequired |-> rows[i].SkillsRequired,
         Stipend |-> rows[i].Stipend, combined_text |-> rows[i].combined_text,
         IsGovernment |-> rows[i].IsGovernment, score |-> score[i]]]

----------------------------------------------------------------------------
(* The catalogs and the calls the model draws from *)

Empty == <<>>

\* rows of companies.csv as pd.read_csv returns them (a missing cell is NaN)
CatalogRows ==
    { [CompanyName |-> <<"R","u","r","a","l"," ","T","r","u","s","t">>,
       PostedRole |-> <<"p">>, Industry |-> NaN, Sector |-> <<"N","G","O">>,
       Location |-> <<"P","u","n","e",","," ","M","H">>,
       SkillsRequired |-> <<"p","y",","," ","e","x">>, Stipend |-> <<"0">>],
      [CompanyName |-> <<"A","c","m","e">>,
       PostedRole |-> <<"p">>, Industry |-> <<"i","t">>, Sector |-> <<"I","T">>,
       Location |-> <<"D","e","l","h","i">>,
       SkillsRequired |-> <<"p","y",";","s","q","l">>, Stipend |-> <<"5">>],
      [CompanyName |-> <<"B","e","t","a">>,
       PostedRole |-> <<"s">>, Industry |-> <<"i","t">>, Sector |-> NaN,
       Location |-> NaN,
       SkillsRequired |-> <<"e","x">>, Stipend |-> NaN] }

SeqsUpTo(S, n) == UNION {[1..k -> S] : k \in 0..n}

Catalogs == SeqsUpTo(CatalogRows, MaxCatalog)

Permutations1(n) == {f \in [1..n -> 1..n] : \A i, j \in 1..n : f[i] = f[j] => i = j}

CustomWeights ==
    [embed |-> Ratio(0, 1), jaccard |-> Ratio(1, 1),
     location |-> Ratio(2, 1), gov |-> Ratio(3, 1)]

Calls ==
    [candidate_text : {<<"P","y">>, <<"s","q","l"," ","x">>},
     candidate_skills : {<<"P","y",","," ","S","Q","L">>, Empty},
     location_pref : {None, <<"p","u","n","e">>, <<"!">>},
     is_rural : BOOLEAN,
     top_k : (0 - 1)..MaxTopK,
     weights : {DefaultWeights, CustomWeights}]

NoCall == [candidate_text |-> None]

----------------------------------------------------------------------------
(* State machine of the Recommender *)

NoArg == <<"no call">>
Raised == [exception |-> "ValueError"]
Absent == [state |-> "absent", cols |-> <<>>, rows |-> <<>>]

EngineIdle ==
    /\ companies = <<>> /\ embeddings = <<>> /\ tieRank = <<>>
    /\ resIndex = <<>> /\ first = NoCall

StoreIdle == store = Absent /\ saved = {}

\* Recommender(companies_df), for every catalog and every build of the sort
Constructed ==
    /\ \E df \in Catalogs :
          /\ companies = InitCompanies(df)
          /\ embeddings = InitEmbeddings(InitCompanies(df))
          /\ tieRank \in Permutations1(Len(df))
    /\ resIndex = <<>>
    /\ first = NoCall

\* line 84, for the frame `res` of lines 80-82 with index labels idx
Returned(c, final_score, res, idx) ==
    /\ pc' = "recommend"
    /\ arg' = c
    /\ ret' = ToDict(res.rows, final_score, idx)
    /\ resIndex' = idx
    /\ companies' = IF res.shared THEN WithScore(companies, final_score)
                    ELSE companies
    /\ UNCHANGED <<embeddings, tieRank, storeVars>>

\* lines 80-84, for the vector final_score of lines 61-78
Ranked(c, final_score) ==
    Returned(c, final_score, ResCopy(companies),
             DfHead(SortValues(final_score, tieRank), c.top_k))

\* Recommender.recommend(c.candidate_text, ..., c.weights)
RecommendCall(c) == Ranked(c, FinalScore(companies, embeddings, c))

\* one request: an engine is constructed and the request arg is served
InitRequest ==
    /\ pc = "request" /\ arg \in Calls /\ ret = NoArg
    /\ Constructed
    /\ StoreIdle

Recommend ==
    /\ pc = "request"
    /\ RecommendCall(arg)
    /\ UNCHANGED first

Next == Recommend

Spec == InitRequest /\ [][Next]_vars

\* sequences of requests on one engine
SeqCalls ==
    {c \in Calls : /\ c.candidate_text = <<"P","y">>
                   /\ c.candidate_skills = Empty
                   /\ c.location_pref = <<"p","u","n","e">>
                   /\ c.top_k \in {1, MaxTopK}}

InitEngine ==
    /\ pc = "init" /\ arg = NoArg /\ ret = NoArg
    /\ Constructed
    /\ StoreIdle

\* recommend; the first call and what it returned are remembered
RecommendLogged ==
    \E c \in SeqCalls :
        /\ RecommendCall(c)
        /\ first' = IF first = NoCall
                    THEN [call |-> c, result |-> ret', other |-> FALSE]
                    ELSE [first EXCEPT !.other = @ \/ c # first.call]

NextSeq == RecommendLogged

SpecSeq == InitEngine /\ [][NextSeq]_vars

----------------------------------------------------------------------------
(* The text helpers, called on every text of the bounded sets *)

Pieces ==
    { <<"a">>, <<"b">>, <<"A">>, <<"1">>, <<",">>, <<";">>, <<"\n">>, <<" ">>,
      <<"!">>, <<" ", "a", "n", "d", " ">> }

RECURSIVE Concat(_)
Concat(ps) == IF ps = <<>> THEN <<>> ELSE ps[1] \o Concat(Tail(ps))

Texts == {Concat(ps) : ps \in SeqsUpTo(Pieces, MaxPieces)}

SkillPool == { <<>>, <<"a">>, <<"A">>, <<"b">>, <<"a", "!">>, <<"!">> }

SkillLists == SeqsUpTo(SkillPool, MaxSkills)

\* an input is drawn: a text (or a value that is no str), or two skill lists
InitText ==
    /\ \/ pc = "text" /\ arg \in Texts \cup NonStr
       \/ pc = "lists" /\ arg \in SkillLists \X SkillLists
    /\ ret = NoArg
    /\ EngineIdle /\ StoreIdle

NormalizeText ==
    /\ pc = "text"
    /\ pc' = "normalize_text" /\ ret' = normalize_text(arg)
    /\ UNCHANGED <<arg, engVars, storeVars>>

ParseSkills ==
    /\ pc = "text"
    /\ pc' = "parse_skills" /\ ret' = parse_skills(arg)
    /\ UNCHANGED <<arg, engVars, storeVars>>

JaccardScore ==
    /\ pc = "lists"
    /\ pc' = "jaccard_score" /\ ret' = jaccard_score(arg[1], arg[2])
    /\ UNCHANGED <<arg, engVars, storeVars>>

NextText == NormalizeText \/ ParseSkills \/ JaccardScore

SpecText == InitText /\ [][NextText]_vars

----------------------------------------------------------------------------
(* utils.py: the student store.  A frame is [cols |-> <column names>,      *)
(* rows |-> <one function from columns to cells per row>]; a cell is a str  *)
(* or NaN.  The file students.csv is absent, empty (size 0) or a CSV text   *)
(* with columns and rows, where every cell is a str.  The model's cells are *)
(* never numeric or boolean literals, so that read_csv reads every column   *)
(* as strings.                                                              *)

EmptyFile == [state |-> "empty", cols |-> <<>>, rows |-> <<>>]

\* cells pd.read_csv reads as missing (its default na_values)
NaValues ==
    { <<>>, <<"N","A">>, <<"N","/","A">>, <<"n","/","a">>, <<"N","a","N">>,
      <<"n","a","n">>, <<"N","U","L","L">>, <<"n","u","l","l">> }

\* pd.read_csv(filepath)
ReadCsv(file) ==
    [cols |-> file.cols,
     rows |-> [i \in 1..Len(file.rows) |->
                  [k \in DOMAIN file.rows[i] |->
                      IF file.rows[i][k] \in NaValues THEN NaN ELSE file.rows[i][k]]]]

\* df.to_csv(filepath, index=False): a missing cell is written as the empty field
ToCsv(df) ==
    [state |-> "csv", cols |-> df.cols,
     rows |-> [i \in 1..Len(df.rows) |->
                  [k \in DOMAIN df.rows[i] |->
                      IF df.rows[i][k] = NaN THEN <<>> ELSE df.rows[i][k]]]]

KeyOrder == <<"name", "email", "source">>

\* record.keys(), in the order the dict was built
Keys(rec) == SelectSeq(KeyOrder, LAMBDA k : k \in DOMAIN rec)

ColSet(df) == {df.cols[i] : i \in 1..Len(df.cols)}

\* lines 24-27: the frame that is loaded, or a new one
Load(file, rec) ==
    IF file.state = "csv" THEN ReadCsv(file)
    ELSE [cols |-> Keys(rec), rows |-> <<>>]

\* lines 30-32: a column of "" for every key the frame lacks
EnsureColumns(df, rec) ==
    [cols |-> df.cols \o SelectSeq(Keys(rec), LAMBDA k : k \notin ColSet(df)),
     rows |-> [i \in 1..Len(df.rows) |->
                  [k \in ColSet(df) \cup DOMAIN rec |->
                      IF k \in ColSet(df) THEN df.rows[i][k] ELSE <<>>]]]

\* record.get("email", None)
GetEmail(rec) == IF "email" \in DOMAIN rec THEN rec.email ELSE None

\* email in df["email"].values
Known(df, email) ==
    "email" \in ColSet(df) /\ \E i \in 1..Len(df.rows) : df.rows[i].email = email

\* lines 40-41: df.loc[df["email"] == email, k] = v  for every item of the record
Update(df, rec) ==
    [cols |-> df.cols,
     rows |-> [i \in 1..Len(df.rows) |->
                  IF df.rows[i].email = rec.email
                  THEN [k \in DOMAIN df.rows[i] |->
                           IF k \in DOMAIN rec THEN rec[k] ELSE df.rows[i][k]]
                  ELSE df.rows[i]]]

\* line 44: pd.concat([df, pd.DataFrame([record])], ignore_index=True)
AppendRecord(df, rec) ==
    [cols |-> df.cols,
     rows |-> Append(df.rows, [k \in ColSet(df) |->
                                  IF k \in DOMAIN rec THEN rec[k] ELSE NaN])]

\* lines 39-47: the file written for a record with an email
Written(df, rec) ==
    ToCsv(IF Known(df, rec.email) THEN Update(df, rec) ELSE AppendRecord(df, rec))

\* the file after save_student_profile(rec, filepath)
save_student_profile(file, rec) ==
    IF GetEmail(rec) = None \/ GetEmail(rec) = <<>> THEN file
    ELSE Written(EnsureColumns(Load(file, rec), rec), rec)

EmailValues == { <<"a","@","x">>, <<"b","@","x">>, <<"N","A">>, <<>> }
NameValues  == { <<"A","l">>, <<>> }

Records ==
    [name : NameValues]
    \cup [name : NameValues, email : EmailValues]
    \cup [name : NameValues, email : EmailValues, source : {<<"m">>}]

RowCount(file) == Len(file.rows)

InitStore ==
    /\ pc = "init" /\ arg = NoArg /\ ret = NoArg
    /\ EngineIdle
    /\ store \in {Absent, EmptyFile}
    /\ saved = {}

SaveStudentProfile ==
    \E rec \in Records :
        /\ RowCount(save_student_profile(store, rec)) <= MaxRows
        /\ pc' = "save_student_profile"
        /\ arg' = rec
        /\ store' = save_student_profile(store, rec)
        /\ IF GetEmail(rec) = None \/ GetEmail(rec) = <<>>
           THEN ret' = Raised /\ saved' = saved
           ELSE ret' = rec /\ saved' = saved \cup {rec.email}
        /\ UNCHANGED engVars

NextStore == SaveStudentProfile

SpecStore == InitStore /\ [][NextStore]_vars

----------------------------------------------------------------------------
(* Properties of recommend, under Spec (one request) *)

Requested == pc = "recommend"

\* the catalog row a result entry was made from
SourceRow(p) == companies[resIndex[p]]

\* C1: recommend called with any top_k <= 0 returns an empty sequence.
TopKNonPositiveReturnsEmpty ==
    (Requested /\ arg.top_k <= 0) => ret = <<>>

\* C2: the result is ordered by non-increasing score, and of two entries of
\* equal score the one earlier in the catalog comes first.
RankedByScoreThenCatalogOrder ==
    Requested =>
        \A p, q \in 1..Len(ret) :
            p < q => /\ ~RatLt(ret[p].score, ret[q].score)
                     /\ RatEq(ret[p].score, ret[q].score) => resIndex[p] < resIndex[q]

\* the full descending ranking of the request arg
FullRanking == SortValues(FinalScore(companies, embeddings, arg), tieRank)

\* C3: for top_k >= 0 and a catalog of N rows, recommend returns exactly
\* min(top_k, N) entries, the first min(top_k, N) of the full descending
\* ranking; when top_k > N every catalog row appears exactly once.
TopKPrefixOfRanking ==
    (Requested /\ arg.top_k >= 0) =>
        /\ Len(ret) = Min(arg.top_k, Len(companies))
        /\ resIndex = SubSeq(FullRanking, 1, Min(arg.top_k, Len(companies)))
        /\ \A p, q \in 1..Len(ret) : p < q => ~RatLt(ret[p].score, ret[q].score)
        /\ \A p \in 1..Len(ret) :
              \A f \in DOMAIN SourceRow(p) : ret[p][f] = SourceRow(p)[f]
        /\ arg.top_k > Len(companies) =>
              \A i \in 1..Len(companies) :
                  Cardinality({p \in 1..Len(ret) : resIndex[p] = i}) = 1

TopKPrefixWitness ==
    /\ Requested
    /\ Len(companies) = 2
    /\ arg.top_k > Len(companies)
    /\ Len(ret) = 2
    /\ resIndex = <<2, 1>>

\* the bonuses as the claim states them
ClaimedLocBonus(row, pref) ==
    IF normalize_text(pref) # <<>>
       /\ Contains(normalize_text(row.Location), normalize_text(pref))
    THEN 1 ELSE 0

ClaimedGovBonus(row, is_rural) == IF is_rural /\ row.IsGovernment THEN 1 ELSE 0

ClaimedScore(i, c) ==
    RatAdd(RatAdd(RatAdd(
        RatMul(c.weights.embed,
               FromInt(Dot(embeddings[i],
                           NormalizeEmbedding(Encode(normalize_text(c.candidate_text)))))),
        RatMul(c.weights.jaccard,
               jaccard_score(parse_skills(c.candidate_skills),
                             parse_skills(companies[i].SkillsRequired)))),
        RatMul(c.weights.location, FromInt(ClaimedLocBonus(companies[i], c.location_pref)))),
        RatMul(c.weights.gov, FromInt(ClaimedGovBonus(companies[i], c.is_rural))))

\* C8: every returned entry's score is w.embed*sim + w.jaccard*jaccard +
\* w.location*locBonus + w.gov*govBonus with the weights as passed, locBonus 1
\* iff the normalized preference is non-empty and a substring of the entry's
\* normalized Location, govBonus 1 iff is_rural and the entry's IsGovernment.
ScoreIsWeightedSum ==
    Requested =>
        \A p \in 1..Len(ret) : RatEq(ret[p].score, ClaimedScore(resIndex[p], arg))

ScoreWitness ==
    /\ Requested
    /\ arg.weights = CustomWeights
    /\ arg.is_rural
    /\ arg.location_pref = <<"p","u","n","e">>
    /\ \E p \in 1..Len(ret) :
          /\ ret[p].IsGovernment
          /\ RatEq(ret[p].score, Ratio(16, 3))
    /\ \E p \in 1..Len(ret) :
          /\ ~ret[p].IsGovernment
          /\ RatEq(ret[p].score, Zero)

----------------------------------------------------------------------------
(* Properties of sequences of recommend calls, under SpecSeq *)

\* C4: a recommend call with the arguments of an earlier call on the same
\* engine returns what the earlier call returned: the same entries in the same
\* order with the same scores, whatever calls were made in between.
SameCallSameResult ==
    (Requested /\ first # NoCall /\ arg = first.call) => ret = first.result

SameCallWitness ==
    /\ Requested
    /\ first # NoCall
    /\ first.other
    /\ arg = first.call
    /\ Len(ret) = 2
    /\ RatEq(ret[1].score, ret[2].score)
    /\ resIndex = <<2, 1>>

CatalogFields ==
    {"CompanyName", "PostedRole", "Industry", "Sector", "Location",
     "SkillsRequired", "Stipend", "combined_text", "IsGovernment"}

\* C5: no recommend call changes the catalog: the rows and their order, every
\* field, combined_text, IsGovernment and the embeddings stay as they were
\* after construction, and no score field appears in the stored catalog.
CatalogUnchanged ==
    [][ /\ companies' = companies
        /\ embeddings' = embeddings
        /\ \A i \in 1..Len(companies') : DOMAIN companies'[i] = CatalogFields ]_vars

CatalogUnchangedWitness ==
    /\ Requested
    /\ first # NoCall
    /\ first.other
    /\ arg.weights = CustomWeights
    /\ Len(companies) = 2
    /\ Len(ret) = 2
    /\ \A i \in 1..2 : DOMAIN companies[i] = CatalogFields

----------------------------------------------------------------------------
(* Properties of the text helpers, under SpecText *)

HasSkill(lst) == \E i \in 1..Len(lst) : Truthy(lst[i])

\* C6, as stated: jaccard(X, X) = 1.0 for every non-empty sequence X,
\* jaccard([], []) = 0.0, and jaccard is symmetric.
JaccardSelfIsOne ==
    pc = "jaccard_score" =>
        /\ RatEq(ret, jaccard_score(arg[2], arg[1]))
        /\ (arg[1] = <<>> /\ arg[2] = <<>>) => ret = Zero
        /\ (arg[1] = arg[2] /\ arg[1] # <<>>) => RatEq(ret, One)

\* C6, amended: jaccard(X, X) = 1.0 for every X with a non-empty element and
\* 0.0 for every X without one, jaccard([], []) = 0.0, and jaccard is symmetric.
JaccardLaws ==
    pc = "jaccard_score" =>
        /\ RatEq(ret, jaccard_score(arg[2], arg[1]))
        /\ (arg[1] = <<>> /\ arg[2] = <<>>) => ret = Zero
        /\ (arg[1] = arg[2] /\ HasSkill(arg[1])) => RatEq(ret, One)
        /\ (arg[1] = arg[2] /\ ~HasSkill(arg[1])) => ret = Zero

JaccardWitness ==
    /\ pc = "jaccard_score"
    /\ arg[1] = arg[2]
    /\ arg[1] = << <<>>, <<"a", "!">> >>
    /\ RatEq(ret, One)

\* the segments of the text between delimiters, normalized, without the empty
\* ones and without repetitions
ClaimedNormalized(parts) ==
    SelectSeq([i \in 1..Len(parts) |-> normalize_text(parts[i])], NonEmpty)

ClaimedParse(t) == FromKeys(ClaimedNormalized(re_split(Lower(t))))

\* C7: parse returns the trimmed non-empty segments of the text split at each
\* comma, semicolon, newline and ' and ', without duplicates, in first-seen order.
ParseSplitsAtEveryDelimiter ==
    (pc = "parse_skills" /\ IsStr(arg)) => ret = ClaimedParse(arg)

\* C9: normalize(normalize(x)) = normalize(x); the result has only characters
\* of a-z, 0-9, comma and space, no leading or trailing space and no two
\* consecutive spaces; a non-string or empty input gives the empty string.
NormalizeIdempotentAndClean ==
    pc = "normalize_text" =>
        /\ normalize_text(ret) = ret
        /\ \A i \in 1..Len(ret) :
              ret[i] \in LowerSet \cup DigitSet \cup {",", " "}
        /\ ret # <<>> => ret[1] # " " /\ ret[Len(ret)] # " "
        /\ \A i \in 1..(Len(ret) - 1) : ~(ret[i] = " " /\ ret[i+1] = " ")
        /\ (~IsStr(arg) \/ arg = <<>>) => ret = <<>>

NormalizeWitness ==
    /\ pc = "normalize_text"
    /\ arg = <<"A", "!", " ", "a", "n", "d", " ">>
    /\ ret = <<"a", " ", "a", "n", "d">>

----------------------------------------------------------------------------
(* Properties of the student store, under SpecStore *)

StoredEmails(file) == {file.rows[i].email : i \in 1..Len(file.rows)}

\* C10: the store holds exactly one row per email that was saved; a save for
\* an email already saved updates its row in place and leaves the other rows
\* unchanged; a call without a non-empty email raises and leaves the file
\* unchanged.
OneRowPerSavedEmail ==
    [][ pc' = "save_student_profile" =>
          IF ret' = Raised THEN store' = store
          ELSE /\ store'.state = "csv"
               /\ StoredEmails(store') = saved'
               /\ Len(store'.rows) = Cardinality(saved')
               /\ arg'.email \in saved =>
                     /\ Len(store'.rows) = Len(store.rows)
                     /\ \A i \in 1..Len(store.rows) :
                           IF store.rows[i].email = arg'.email
                           THEN \A k \in DOMAIN arg' : store'.rows[i][k] = arg'[k]
                           ELSE \A k \in DOMAIN store.rows[i] :
                                   store'.rows[i][k] = store.rows[i][k] ]_vars

====
